---- MODULE Spec2Model ----
(***************************************************************************)
(* Model of host/lib/usrp/b100/io_impl.cpp: the receive demultiplexer      *)
(* (io_impl::get_recv_buff), the per-direction locks of the packet         *)
(* handlers, and the operations that take them (recv, send,                *)
(* update_tick_rate, update_rx/tx_samp_rate, update_rx/tx_subdev_spec).    *)
(*                                                                         *)
(* Channel and DSP indices are 0-based as in the source.  A receive buffer *)
(* is identified by the order in which the transport handed it out         *)
(* (1, 2, ...); 0 is the null sptr.                                        *)
(***************************************************************************)
EXTENDS Integers, Sequences, FiniteSets, TLC

(* ---------------------------- bounds ----------------------------------- *)
NThreads == 2        \* application threads calling into the device
RecvWidth == 2       \* _rx_dsps.size(), the recv_width given to io_impl
NumRecvFrames == 2   \* data_transport->get_num_recv_frames()
MaxBufs == 3         \* buffers the transport hands out in one behaviour
Timeout == 1         \* the timeout argument of recv, in wait units
MaxTxChans == 1      \* longest tx subdev spec tried
MaxRate == 1         \* rates tried by the rate setters
MaxPkts == 1         \* out-of-band packets of any kind handed to the handler
MaxPushes == 2       \* events handed to the handler while threads poll
MaxEvents == 102     \* event packets handed to the handler in a row
MaxWidth == 64       \* largest otw_type width tried, in bits

(* ------------------------- program constants --------------------------- *)
B100_RX_SID_BASE == 2
B100_TX_ASYNC_SID == 1
\* line 44: async_msg_fifo(100 /*messages deep*/)
AsyncDepth_Mut == 100 - 1
AsyncDepth == 100
\* vrt_hdr[1] is a 32 bit word and the subtraction wraps; TLC's integers are
\* 32 bit signed, so the word is modelled 16 bits wide.
SidModulus == 65536

Threads == 1..NThreads
Chans == 0..(RecvWidth - 1)
NULL == 0
UNBOUND == -1
Rates == 1..MaxRate

\* stream ids the transport may deliver: one below the base, every channel,
\* and one above the last channel
Sids == (B100_RX_SID_BASE - 1)..(B100_RX_SID_BASE + RecvWidth)

\* sub-devices named by a subdev spec: "A" is a front-end of the
\* daughterboard, "X" is on no daughterboard
Subdevs == {"A", "X"}
RxSpecs == UNION {[1..n -> Subdevs] : n \in 1..RecvWidth}

\* subdev specs of any length, the empty one and one entry more than there
\* are RX DSPs included
AnyRxSpecs == UNION {[1..n -> Subdevs] : n \in 0..(RecvWidth + 1)}
TxSpecs == UNION {[1..n -> Subdevs] : n \in 1..MaxTxChans}

VARIABLES
    pc,           \* per thread: where it is in the operation it runs
    idx,          \* per thread: index argument of get_recv_buff
    buff,         \* per thread: buffer returned by its last get_recv_buff
    waited,       \* per thread: time spent in the transport by that call
    ncalls,       \* per thread: transport calls made by that call
    spec,         \* per thread: spec argument of update_*_subdev_spec
    iter,         \* per thread: loop variable i of update_*_subdev_spec
    rate,         \* per thread: rate argument of update_tick_rate
    snap,         \* per thread: the configuration its update_*_subdev_spec found
    recv_mutex,   \* recv_handler's mutex: holder or 0
    send_mutex,   \* send_handler's mutex: holder or 0
    buffs_queue,  \* io_impl::_buffs_queue
    nbufs,        \* buffers handed out by the transport so far
    hist,         \* per buffer: what became of it (see Direct, Redirected)
    last_ret,     \* per channel: buffer most recently returned for it
    recv_size,    \* recv_handler.size()
    recv_chan,    \* recv_handler's per channel get-buff / overflow bindings
    send_size,    \* send_handler.size()
    send_chan,    \* send_handler's per channel get-buff binding
    rx_mux,       \* mux programmed into each _rx_dsps[i]
    tx_mux,       \* mux programmed into _tx_fe
    recv_tick, send_tick, recv_samp, send_samp,  \* handler rates
    async_msg_fifo,  \* io_impl::async_msg_fifo
    npkts,           \* packets handed to handle_async_message so far
    async_pkt,       \* the packet of the last handle_async_message call
    async_info,      \* if_packet_info as that call read it at line 136
    async_log,       \* what that call reported
    async_metadata,  \* per thread: the out-parameter of recv_async_msg
    async_ret,       \* per thread: what its last recv_async_msg returned
    rx_otw_width, tx_otw_width,     \* _rx_otw_type.width, _tx_otw_type.width
    max_recv_samps, max_send_samps  \* last results of get_max_*_samps_per_packet,
                                    \* -1 before the first call

locals == <<pc, idx, buff, waited, ncalls, spec, iter, rate, snap>>
mutexes == <<recv_mutex, send_mutex>>
demux == <<buffs_queue, nbufs, hist, last_ret>>
rxconf == <<recv_size, recv_chan, rx_mux>>
txconf == <<send_size, send_chan, tx_mux>>
rates == <<recv_tick, send_tick, recv_samp, send_samp>>
async == <<async_msg_fifo, npkts, async_pkt, async_info, async_log,
           async_metadata, async_ret>>
sizing == <<rx_otw_width, tx_otw_width, max_recv_samps, max_send_samps>>
device == <<mutexes, demux, rxconf, txconf, rates>>
vars == <<locals, mutexes, demux, rxconf, txconf, rates, async, sizing>>

(* ------------------------------ helpers -------------------------------- *)
\* what update_tx_subdev_spec finds when it starts (lines 203-204): the send
\* configuration, in a form no receive configuration has
TxSnap == <<txconf>>

\* line 77: rx_index = wtohx(vrt_hdr[1]) - B100_RX_SID_BASE, unsigned
rx_index(sid) == (sid + SidModulus - B100_RX_SID_BASE) % SidModulus

\* line 78 taking every buffer for the expected one
IsExpected_Mut(rx, index) == TRUE

\* line 78: the buffer is the one the caller asked for
IsExpected(rx, index) == rx = index

\* line 69 without the early return: the transport is called in any case
QueueChecked_Mut(q) == TRUE

\* line 69: the transport is called only when the pop found nothing
QueueChecked(q) == q = <<>>

\* line 190 resizing to the number of DSPs instead of the spec's length
NewRecvSize_Mut(s) == RecvWidth

\* line 190: the occupancy recv_handler is resized to
NewRecvSize(s) == Len(s)

\* line 81 queueing on the requested channel instead of the buffer's own
RedirectQueue_Mut(rx, index) == index

\* line 81: the queue a buffer that was not asked for goes to
RedirectQueue(rx, index) == rx

\* line 48 with queues one entry deeper than the transport recommends
QueueDepth_Mut == NumRecvFrames + 1

\* line 48: every queue is as deep as the transport has receive frames
QueueDepth == NumRecvFrames

\* bounded_buffer::pop_with_haste on a non-empty queue
pop_with_haste(q) == Tail(q)

\* bounded_buffer::push_with_pop_on_full
push_with_pop_on_full(q, b, cap) ==
    IF Len(q) >= cap THEN Append(Tail(q), b) ELSE Append(q, b)

\* validate_subdev_spec / the property tree
Exists(sd) == sd = "A"
Connection(sd) == IF sd = "A" THEN "IQ" ELSE "none"
\* a spec is accepted when it names between one and ndsps sub-devices and
\* the device has every one of them
validate_subdev_spec(s, ndsps) ==
    /\ Len(s) \in 1..ndsps
    /\ \A k \in DOMAIN s : Exists(s[k])

\* a channel of recv_handler that resize has just created
NoRecvChan == [get_buff |-> UNBOUND, overflow |-> UNBOUND]

\* a channel of send_handler that resize has just created
NoSendChan == "unbound"

\* std::vector::resize on a handler's per channel bindings
Resize(chan, n, fresh) ==
    [i \in 0..(n - 1) |-> IF i \in DOMAIN chan THEN chan[i] ELSE fresh]

\* an out-of-band packet: whether its header decodes, and what is in it
PacketTypes == {"data", "context"}
AsyncSids == {B100_TX_ASYNC_SID, B100_RX_SID_BASE}
EventCodes == {"underflow", "seq_error"}
Infos == [sid : AsyncSids, type : PacketTypes, tsi : BOOLEAN, tsf : BOOLEAN,
          code : EventCodes]
Packets == [ok : BOOLEAN, sid : AsyncSids, type : PacketTypes,
            tsi : BOOLEAN, tsf : BOOLEAN, code : EventCodes]
NoPkt == [ok |-> FALSE, sid |-> 0, type |-> "none", tsi |-> FALSE,
          tsf |-> FALSE, code |-> "none"]
NoMetadata == [seq |-> 0, channel |-> -1, has_time_spec |-> FALSE,
               event_code |-> "none"]

InQueue(b, j) == \E k \in DOMAIN buffs_queue[j] : buffs_queue[j][k] = b
Occurrences(b) ==
    LET n[j \in -1..(RecvWidth - 1)] ==
            IF j = -1 THEN 0
            ELSE n[j - 1] + Cardinality({k \in DOMAIN buffs_queue[j] :
                                            buffs_queue[j][k] = b})
    IN n[RecvWidth - 1]

(* ------------------------------- Init ---------------------------------- *)
\* lines 46-49: the constructor creates recv_width empty queues
NewQueues == [j \in 0..(RecvWidth - 1) |-> <<>>]

InitDevice ==
    /\ pc = [t \in Threads |-> "idle"]
    /\ idx = [t \in Threads |-> 0]
    /\ buff = [t \in Threads |-> NULL]
    /\ waited = [t \in Threads |-> 0]
    /\ ncalls = [t \in Threads |-> 0]
    /\ spec = [t \in Threads |-> <<>>]
    /\ iter = [t \in Threads |-> 0]
    /\ rate = [t \in Threads |-> 0]
    /\ snap = [t \in Threads |-> <<>>]
    /\ recv_mutex = 0
    /\ send_mutex = 0
    /\ buffs_queue = NewQueues
    /\ nbufs = 0
    /\ hist = <<>>
    /\ last_ret = [j \in Chans |-> 0]
    /\ recv_size = 1
    /\ recv_chan = [i \in 0..0 |-> NoRecvChan]
    /\ send_size = 1
    /\ send_chan = [i \in 0..0 |-> NoSendChan]
    /\ rx_mux = [i \in Chans |-> "unset"]
    /\ tx_mux = "unset"
    /\ recv_tick = 1
    /\ send_tick = 1
    /\ recv_samp = 1
    /\ send_samp = 1

\* line 44: the event queue starts empty; no packet handled, no poll made
InitEvents ==
    /\ async_msg_fifo = <<>>
    /\ npkts = 0
    /\ async_pkt = NoPkt
    /\ async_info = NoPkt
    /\ async_log = {}
    /\ async_metadata = [t \in Threads |-> NoMetadata]
    /\ async_ret = [t \in Threads |-> FALSE]

\* lines 93 and 98: io_init sets both otw types to 16 bits
InitOtw ==
    /\ rx_otw_width = 16
    /\ tx_otw_width = 16
    /\ max_recv_samps = -1
    /\ max_send_samps = -1

Init == InitDevice /\ InitEvents /\ InitOtw

\* the device once update_rx_subdev_spec has bound a channel to every RX DSP
\* and update_tx_subdev_spec one send channel, nothing received yet
InitConfigured ==
    /\ pc = [t \in Threads |-> "idle"]
    /\ idx = [t \in Threads |-> 0]
    /\ buff = [t \in Threads |-> NULL]
    /\ waited = [t \in Threads |-> 0]
    /\ ncalls = [t \in Threads |-> 0]
    /\ spec = [t \in Threads |-> <<>>]
    /\ iter = [t \in Threads |-> 0]
    /\ rate = [t \in Threads |-> 0]
    /\ snap = [t \in Threads |-> <<>>]
    /\ recv_mutex = 0
    /\ send_mutex = 0
    /\ buffs_queue = NewQueues
    /\ nbufs = 0
    /\ hist = <<>>
    /\ last_ret = [j \in Chans |-> 0]
    /\ recv_size = RecvWidth
    /\ recv_chan = [i \in Chans |-> [get_buff |-> i, overflow |-> i]]
    /\ send_size = 1
    /\ send_chan = [i \in 0..0 |-> "get_send_buff"]
    /\ rx_mux = [i \in Chans |-> Connection("A")]
    /\ tx_mux = Connection("A")
    /\ recv_tick = 1
    /\ send_tick = 1
    /\ recv_samp = 1
    /\ send_samp = 1
    /\ InitEvents
    /\ InitOtw

(* ------------------------- io_impl::get_recv_buff ---------------------- *)
\* What is recorded of each buffer the transport hands out: its stream id,
\* whether it was redirected, the thread whose call queued it (while it is
\* queued), whether it was then returned to another thread's call, how
\* often it was returned, and where it is now.
\* line 78: returned at once to the caller
Direct(sid) ==
    [sid |-> sid, redirected |-> FALSE, by |-> 0, cross |-> FALSE,
     nret |-> 1, fate |-> "returned"]

\* line 81: queued by the call of thread t
Redirected(sid, t) ==
    [sid |-> sid, redirected |-> TRUE, by |-> t, cross |-> FALSE,
     nret |-> 0, fate |-> "queued"]

\* line 82: neither returned nor queued
Discarded(sid) ==
    [sid |-> sid, redirected |-> FALSE, by |-> 0, cross |-> FALSE,
     nret |-> 0, fate |-> "discarded"]

\* line 69: popped from its queue by the call of thread t
Popped(h, t) ==
    [h EXCEPT !.nret = @ + 1, !.fate = "returned", !.cross = (h.by # t),
              !.by = 0]

\* push_with_pop_on_full dropped it from the front of its queue
Evicted(h) == [h EXCEPT !.fate = "evicted", !.by = 0]

\* the call ends: its result goes to the handler that made it
GrbReturn(t, b) ==
    /\ pc' = [pc EXCEPT ![t] = "recv"]
    /\ buff' = [buff EXCEPT ![t] = b]

\* line 69 taking the newest buffer of the queue instead of the oldest
GrbPop_Lifo(t) ==
    /\ pc[t] = "grb"
    /\ buffs_queue[idx[t]] # <<>>
    /\ LET q == buffs_queue[idx[t]]
           b == q[Len(q)]
       IN
        /\ GrbReturn(t, b)
        /\ buffs_queue' = [buffs_queue EXCEPT
                              ![idx[t]] = SubSeq(q, 1, Len(q) - 1)]
        /\ hist' = [hist EXCEPT ![b] = Popped(@, t)]
        /\ last_ret' = [last_ret EXCEPT ![idx[t]] = b]
    /\ UNCHANGED <<idx, waited, ncalls, spec, iter, rate, snap, nbufs>>
    /\ UNCHANGED <<mutexes, rxconf, txconf, rates>>
    /\ UNCHANGED <<async, sizing>>

\* line 69 returning the front of the queue without removing it
GrbPop_Peek(t) ==
    /\ pc[t] = "grb"
    /\ buffs_queue[idx[t]] # <<>>
    /\ LET b == Head(buffs_queue[idx[t]]) IN
        /\ GrbReturn(t, b)
        /\ hist' = [hist EXCEPT ![b] = Popped(@, t)]
        /\ last_ret' = [last_ret EXCEPT ![idx[t]] = b]
    /\ UNCHANGED <<idx, waited, ncalls, spec, iter, rate, snap, nbufs>>
    /\ UNCHANGED <<buffs_queue, mutexes, rxconf, txconf, rates>>
    /\ UNCHANGED <<async, sizing>>

\* line 69: pop_with_haste succeeds
GrbPop(t) ==
    /\ pc[t] = "grb"
    /\ buffs_queue[idx[t]] # <<>>
    /\ LET b == Head(buffs_queue[idx[t]]) IN
        /\ GrbReturn(t, b)
        /\ buffs_queue' = [buffs_queue EXCEPT
                              ![idx[t]] = pop_with_haste(buffs_queue[idx[t]])]
        /\ hist' = [hist EXCEPT ![b] = Popped(@, t)]
        /\ last_ret' = [last_ret EXCEPT ![idx[t]] = b]
    /\ UNCHANGED <<idx, waited, ncalls, spec, iter, rate, snap, nbufs>>
    /\ UNCHANGED <<mutexes, rxconf, txconf, rates>>
    /\ UNCHANGED <<async, sizing>>

\* line 73 missing: the loop goes round again after a transport timeout
GrbTimeout_Mut(t) ==
    /\ pc[t] = "grb"
    /\ QueueChecked(buffs_queue[idx[t]])
    /\ waited' = [waited EXCEPT ![t] = @ + Timeout]
    /\ ncalls' = [ncalls EXCEPT ![t] = @ + 1]
    /\ UNCHANGED <<pc, buff, idx, spec, iter, rate, snap>>
    /\ UNCHANGED <<mutexes, demux, rxconf, txconf, rates>>
    /\ UNCHANGED <<async, sizing>>

\* line 73 throwing instead of returning: the timeout unwinds recv
GrbTimeout_Throw(t) ==
    /\ pc[t] = "grb"
    /\ QueueChecked(buffs_queue[idx[t]])
    /\ pc' = [pc EXCEPT ![t] = "idle"]
    /\ recv_mutex' = 0
    /\ waited' = [waited EXCEPT ![t] = @ + Timeout]
    /\ ncalls' = [ncalls EXCEPT ![t] = @ + 1]
    /\ UNCHANGED <<buff, idx, spec, iter, rate, snap, send_mutex>>
    /\ UNCHANGED <<demux, rxconf, txconf, rates>>
    /\ UNCHANGED <<async, sizing>>

\* lines 72-73: the transport has no buffer within the timeout
GrbTimeout(t) ==
    /\ pc[t] = "grb"
    /\ QueueChecked(buffs_queue[idx[t]])
    /\ GrbReturn(t, NULL)
    /\ waited' = [waited EXCEPT ![t] = @ + Timeout]
    /\ ncalls' = [ncalls EXCEPT ![t] = @ + 1]
    /\ UNCHANGED <<idx, spec, iter, rate, snap>>
    /\ UNCHANGED <<mutexes, demux, rxconf, txconf, rates>>
    /\ UNCHANGED <<async, sizing>>

\* line 82 ending the call with no buffer instead of going round the loop
GrbDiscard_Mut(t, sid) ==
    /\ hist' = Append(hist, Discarded(sid))
    /\ GrbReturn(t, NULL)
    /\ UNCHANGED <<buffs_queue, last_ret>>

\* line 82: the buffer goes nowhere, the error is reported, the loop goes on
GrbDiscard(t, sid) ==
    /\ hist' = Append(hist, Discarded(sid))
    /\ UNCHANGED <<pc, buff, buffs_queue, last_ret>>

\* lines 72-82: the transport hands out a buffer with stream id sid after w
GrbRecv(t, sid, w) ==
    /\ pc[t] = "grb"
    /\ QueueChecked(buffs_queue[idx[t]])
    /\ nbufs < MaxBufs
    /\ LET b == nbufs + 1
           rx == rx_index(sid)
       IN
        /\ nbufs' = b
        /\ waited' = [waited EXCEPT ![t] = @ + w]
        /\ ncalls' = [ncalls EXCEPT ![t] = @ + 1]
        /\ IF IsExpected(rx, idx[t])
           THEN /\ GrbReturn(t, b)
                /\ hist' = Append(hist, Direct(sid))
                /\ last_ret' = [last_ret EXCEPT ![idx[t]] = b]
                /\ UNCHANGED buffs_queue
           ELSE IF rx < RecvWidth
           THEN /\ buffs_queue' = [buffs_queue EXCEPT
                       ![RedirectQueue(rx, idx[t])] =
                           push_with_pop_on_full(@, b, QueueDepth)]
                /\ hist' = LET q == buffs_queue[RedirectQueue(rx, idx[t])]
                               h == Append(hist, Redirected(sid, t))
                           IN IF Len(q) >= QueueDepth
                              THEN [h EXCEPT ![Head(q)] = Evicted(@)]
                              ELSE h
                /\ UNCHANGED <<pc, buff, last_ret>>
           ELSE GrbDiscard(t, sid)
    /\ UNCHANGED <<idx, spec, iter, rate, snap>>
    /\ UNCHANGED <<mutexes, rxconf, txconf, rates>>
    /\ UNCHANGED <<async, sizing>>

(* ------------------------------ recv ----------------------------------- *)
\* recv_handler.recv takes the handler's mutex for the whole call
RecvAcquire(t) ==
    /\ pc[t] = "idle"
    /\ recv_mutex = 0
    /\ recv_mutex' = t
    /\ pc' = [pc EXCEPT ![t] = "recv"]
    /\ UNCHANGED <<idx, buff, waited, ncalls, spec, iter, rate, snap, send_mutex>>
    /\ UNCHANGED <<demux, rxconf, txconf, rates>>
    /\ UNCHANGED <<async, sizing>>

\* the handler calls the get-buff callback bound to channel i (line 195)
RecvFetch(t, i) ==
    /\ pc[t] = "recv"
    /\ i \in DOMAIN recv_chan
    /\ recv_chan[i].get_buff # UNBOUND
    /\ pc' = [pc EXCEPT ![t] = "grb"]
    /\ idx' = [idx EXCEPT ![t] = recv_chan[i].get_buff]
    /\ buff' = [buff EXCEPT ![t] = NULL]
    /\ waited' = [waited EXCEPT ![t] = 0]
    /\ ncalls' = [ncalls EXCEPT ![t] = 0]
    /\ UNCHANGED <<spec, iter, rate, snap>>
    /\ UNCHANGED <<mutexes, demux, rxconf, txconf, rates>>
    /\ UNCHANGED <<async, sizing>>

RecvRelease(t) ==
    /\ pc[t] = "recv"
    /\ recv_mutex' = 0
    /\ pc' = [pc EXCEPT ![t] = "idle"]
    /\ idx' = [idx EXCEPT ![t] = 0]
    /\ buff' = [buff EXCEPT ![t] = NULL]
    /\ waited' = [waited EXCEPT ![t] = 0]
    /\ ncalls' = [ncalls EXCEPT ![t] = 0]
    /\ UNCHANGED <<spec, iter, rate, snap, send_mutex>>
    /\ UNCHANGED <<demux, rxconf, txconf, rates>>
    /\ UNCHANGED <<async, sizing>>

(* ------------------------------ send ----------------------------------- *)
\* send_handler.send takes the handler's mutex for the whole call
SendAcquire(t) ==
    /\ pc[t] = "idle"
    /\ send_mutex = 0
    /\ send_mutex' = t
    /\ pc' = [pc EXCEPT ![t] = "send"]
    /\ UNCHANGED <<idx, buff, waited, ncalls, spec, iter, rate, snap, recv_mutex>>
    /\ UNCHANGED <<demux, rxconf, txconf, rates>>
    /\ UNCHANGED <<async, sizing>>

SendRelease(t) ==
    /\ pc[t] = "send"
    /\ send_mutex' = 0
    /\ pc' = [pc EXCEPT ![t] = "idle"]
    /\ UNCHANGED <<idx, buff, waited, ncalls, spec, iter, rate, snap, recv_mutex>>
    /\ UNCHANGED <<demux, rxconf, txconf, rates>>
    /\ UNCHANGED <<async, sizing>>

(* ------------------------- update_tick_rate ---------------------------- *)
\* lines 159-160: take the recv lock, set the recv handler's tick rate
TickRecv(t, r) ==
    /\ pc[t] = "idle"
    /\ recv_mutex = 0
    /\ recv_mutex' = t
    /\ recv_tick' = r
    /\ rate' = [rate EXCEPT ![t] = r]
    /\ pc' = [pc EXCEPT ![t] = "tick_send"]
    /\ UNCHANGED <<idx, buff, waited, ncalls, spec, iter, snap, send_mutex>>
    /\ UNCHANGED <<demux, rxconf, txconf, send_tick, recv_samp, send_samp>>
    /\ UNCHANGED <<async, sizing>>

\* lines 161-163: take the send lock, set the send handler's tick rate, and
\* leave the function, which releases both locks
TickSend(t) ==
    /\ pc[t] = "tick_send"
    /\ send_mutex = 0
    /\ send_tick' = rate[t]
    /\ recv_mutex' = 0
    /\ send_mutex' = 0
    /\ rate' = [rate EXCEPT ![t] = 0]
    /\ pc' = [pc EXCEPT ![t] = "idle"]
    /\ UNCHANGED <<idx, buff, waited, ncalls, spec, iter, snap>>
    /\ UNCHANGED <<demux, rxconf, txconf, recv_tick, recv_samp, send_samp>>
    /\ UNCHANGED <<async, sizing>>

(* --------------------- update_rx/tx_samp_rate -------------------------- *)
\* lines 165-168
update_rx_samp_rate(t, r) ==
    /\ pc[t] = "idle"
    /\ recv_mutex = 0
    /\ recv_samp' = r
    /\ UNCHANGED <<locals, mutexes, demux, rxconf, txconf>>
    /\ UNCHANGED <<recv_tick, send_tick, send_samp>>
    /\ UNCHANGED <<async, sizing>>

\* lines 170-173
update_tx_samp_rate(t, r) ==
    /\ pc[t] = "idle"
    /\ send_mutex = 0
    /\ send_samp' = r
    /\ UNCHANGED <<locals, mutexes, demux, rxconf, txconf>>
    /\ UNCHANGED <<recv_tick, send_tick, recv_samp>>
    /\ UNCHANGED <<async, sizing>>

(* ----------------------- update_rx_subdev_spec ------------------------- *)
\* line 176 missing: the reconfiguration runs without the recv lock
RxSpecLock_Mut(t, s) ==
    /\ pc[t] = "idle"
    /\ spec' = [spec EXCEPT ![t] = s]
    /\ snap' = [snap EXCEPT ![t] = rxconf]
    /\ pc' = [pc EXCEPT ![t] = "rx_validate"]
    /\ UNCHANGED <<idx, buff, waited, ncalls, iter, rate, mutexes>>
    /\ UNCHANGED <<demux, rxconf, txconf, rates>>
    /\ UNCHANGED <<async, sizing>>

\* line 176
RxSpecLock(t, s) ==
    /\ pc[t] = "idle"
    /\ recv_mutex = 0
    /\ recv_mutex' = t
    /\ spec' = [spec EXCEPT ![t] = s]
    /\ snap' = [snap EXCEPT ![t] = rxconf]
    /\ pc' = [pc EXCEPT ![t] = "rx_validate"]
    /\ UNCHANGED <<idx, buff, waited, ncalls, iter, rate, send_mutex>>
    /\ UNCHANGED <<demux, rxconf, txconf, rates>>
    /\ UNCHANGED <<async, sizing>>

\* line 180 missing: a spec naming a missing sub-device is found out only in
\* the mux loop, by the tree access of line 185, after the entries before it
\* have been programmed
RxSpecValidate_Mut(t) ==
    /\ pc[t] = "rx_validate"
    /\ IF validate_subdev_spec(spec[t], RecvWidth)
       THEN /\ pc' = [pc EXCEPT ![t] = "rx_mux"]
            /\ iter' = [iter EXCEPT ![t] = 0]
            /\ snap' = [snap EXCEPT ![t] = <<>>]
            /\ UNCHANGED <<spec, recv_mutex, rx_mux>>
       ELSE /\ pc' = [pc EXCEPT ![t] = "threw"]
            /\ recv_mutex' = 0
            /\ rx_mux' = [i \in Chans |->
                    IF /\ i + 1 \in DOMAIN spec[t]
                       /\ \A k \in 1..(i + 1) : Exists(spec[t][k])
                    THEN Connection(spec[t][i + 1]) ELSE rx_mux[i]]
            /\ spec' = [spec EXCEPT ![t] = <<>>]
            /\ snap' = [snap EXCEPT ![t] = <<>>]
            /\ UNCHANGED iter
    /\ UNCHANGED <<idx, buff, waited, ncalls, rate, send_mutex>>
    /\ UNCHANGED <<demux, recv_size, recv_chan, txconf, rates>>
    /\ UNCHANGED <<async, sizing>>

\* line 180: validate_subdev_spec returns, or throws through the function,
\* whose scoped lock is released by the unwinding
RxSpecValidate(t) ==
    /\ pc[t] = "rx_validate"
    /\ IF validate_subdev_spec(spec[t], RecvWidth)
       THEN /\ pc' = [pc EXCEPT ![t] = "rx_mux"]
            /\ iter' = [iter EXCEPT ![t] = 0]
            /\ snap' = [snap EXCEPT ![t] = <<>>]
            /\ UNCHANGED <<spec, recv_mutex>>
       ELSE /\ pc' = [pc EXCEPT ![t] = "threw"]
            /\ recv_mutex' = 0
            /\ spec' = [spec EXCEPT ![t] = <<>>]
            /\ snap' = [snap EXCEPT ![t] = <<>>]
            /\ UNCHANGED iter
    /\ UNCHANGED <<idx, buff, waited, ncalls, rate, send_mutex>>
    /\ UNCHANGED <<demux, rxconf, txconf, rates>>
    /\ UNCHANGED <<async, sizing>>

\* lines 183-187: one turn of the mux loop
RxSpecMux(t) ==
    /\ pc[t] = "rx_mux"
    /\ iter[t] < Len(spec[t])
    /\ rx_mux' = [rx_mux EXCEPT ![iter[t]] = Connection(spec[t][iter[t] + 1])]
    /\ iter' = [iter EXCEPT ![t] = @ + 1]
    /\ UNCHANGED <<pc, idx, buff, waited, ncalls, spec, rate, snap>>
    /\ UNCHANGED <<mutexes, demux, recv_size, recv_chan, txconf, rates>>
    /\ UNCHANGED <<async, sizing>>

\* line 190: recv_handler.resize(spec.size())
RxSpecResize(t) ==
    /\ pc[t] = "rx_mux"
    /\ iter[t] >= Len(spec[t])
    /\ recv_size' = NewRecvSize(spec[t])
    /\ recv_chan' = Resize(recv_chan, NewRecvSize(spec[t]), NoRecvChan)
    /\ pc' = [pc EXCEPT ![t] = "rx_bind"]
    /\ iter' = [iter EXCEPT ![t] = 0]
    /\ UNCHANGED <<idx, buff, waited, ncalls, spec, rate, snap>>
    /\ UNCHANGED <<mutexes, demux, rx_mux, txconf, rates>>
    /\ UNCHANGED <<async, sizing>>

\* line 196 binding get_recv_buff to the index after the channel's own
RxSpecBind_Shift(t) ==
    /\ pc[t] = "rx_bind"
    /\ iter[t] < recv_size
    /\ recv_chan' = [recv_chan EXCEPT ![iter[t]] =
                        [get_buff |-> iter[t] + 1, overflow |-> iter[t]]]
    /\ iter' = [iter EXCEPT ![t] = @ + 1]
    /\ UNCHANGED <<pc, idx, buff, waited, ncalls, spec, rate, snap>>
    /\ UNCHANGED <<mutexes, demux, recv_size, rx_mux, txconf, rates>>
    /\ UNCHANGED <<async, sizing>>

\* lines 193-199: one turn of the binding loop
RxSpecBind(t) ==
    /\ pc[t] = "rx_bind"
    /\ iter[t] < recv_size
    /\ recv_chan' = [recv_chan EXCEPT ![iter[t]] =
                        [get_buff |-> iter[t], overflow |-> iter[t]]]
    /\ iter' = [iter EXCEPT ![t] = @ + 1]
    /\ UNCHANGED <<pc, idx, buff, waited, ncalls, spec, rate, snap>>
    /\ UNCHANGED <<mutexes, demux, recv_size, rx_mux, txconf, rates>>
    /\ UNCHANGED <<async, sizing>>

\* line 200: the function ends and releases the recv lock
RxSpecRelease(t) ==
    /\ pc[t] = "rx_bind"
    /\ iter[t] >= recv_size
    /\ recv_mutex' = 0
    /\ pc' = [pc EXCEPT ![t] = "idle"]
    /\ spec' = [spec EXCEPT ![t] = <<>>]
    /\ iter' = [iter EXCEPT ![t] = 0]
    /\ snap' = [snap EXCEPT ![t] = <<>>]
    /\ UNCHANGED <<idx, buff, waited, ncalls, rate, send_mutex>>
    /\ UNCHANGED <<demux, rxconf, txconf, rates>>
    /\ UNCHANGED <<async, sizing>>

(* ----------------------- update_tx_subdev_spec ------------------------- *)
\* line 203 taking recv_handler's lock, as line 176 does
TxSpecLock_Mut(t, s) ==
    /\ pc[t] = "idle"
    /\ recv_mutex = 0
    /\ recv_mutex' = t
    /\ spec' = [spec EXCEPT ![t] = s]
    /\ snap' = [snap EXCEPT ![t] = TxSnap]
    /\ pc' = [pc EXCEPT ![t] = "tx_validate"]
    /\ UNCHANGED <<idx, buff, waited, ncalls, iter, rate, send_mutex>>
    /\ UNCHANGED <<demux, rxconf, txconf, rates>>
    /\ UNCHANGED <<async, sizing>>

\* line 203
TxSpecLock(t, s) ==
    /\ pc[t] = "idle"
    /\ send_mutex = 0
    /\ send_mutex' = t
    /\ spec' = [spec EXCEPT ![t] = s]
    /\ snap' = [snap EXCEPT ![t] = TxSnap]
    /\ pc' = [pc EXCEPT ![t] = "tx_validate"]
    /\ UNCHANGED <<idx, buff, waited, ncalls, iter, rate, recv_mutex>>
    /\ UNCHANGED <<demux, rxconf, txconf, rates>>
    /\ UNCHANGED <<async, sizing>>

\* line 207
TxSpecValidate(t) ==
    /\ pc[t] = "tx_validate"
    /\ IF validate_subdev_spec(spec[t], MaxTxChans)
       THEN /\ pc' = [pc EXCEPT ![t] = "tx_mux"]
            /\ snap' = [snap EXCEPT ![t] = <<>>]
            /\ UNCHANGED <<spec, send_mutex>>
       ELSE /\ pc' = [pc EXCEPT ![t] = "threw"]
            /\ send_mutex' = 0
            /\ spec' = [spec EXCEPT ![t] = <<>>]
            /\ snap' = [snap EXCEPT ![t] = <<>>]
    /\ UNCHANGED <<idx, buff, waited, ncalls, iter, rate, recv_mutex>>
    /\ UNCHANGED <<demux, rxconf, txconf, rates>>
    /\ UNCHANGED <<async, sizing>>

\* lines 210-211: the mux of spec[0]
TxSpecMux(t) ==
    /\ pc[t] = "tx_mux"
    /\ tx_mux' = Connection(spec[t][1])
    /\ pc' = [pc EXCEPT ![t] = "tx_resize"]
    /\ UNCHANGED <<idx, buff, waited, ncalls, spec, iter, rate, snap>>
    /\ UNCHANGED <<mutexes, demux, rxconf, send_size, send_chan, rates>>
    /\ UNCHANGED <<async, sizing>>

\* line 214: send_handler.resize(spec.size())
TxSpecResize(t) ==
    /\ pc[t] = "tx_resize"
    /\ send_size' = Len(spec[t])
    /\ send_chan' = Resize(send_chan, Len(spec[t]), NoSendChan)
    /\ pc' = [pc EXCEPT ![t] = "tx_bind"]
    /\ iter' = [iter EXCEPT ![t] = 0]
    /\ UNCHANGED <<idx, buff, waited, ncalls, spec, rate, snap>>
    /\ UNCHANGED <<mutexes, demux, rxconf, tx_mux, rates>>
    /\ UNCHANGED <<async, sizing>>

\* lines 217-221: one turn of the binding loop
TxSpecBind(t) ==
    /\ pc[t] = "tx_bind"
    /\ iter[t] < send_size
    /\ send_chan' = [send_chan EXCEPT ![iter[t]] = "get_send_buff"]
    /\ iter' = [iter EXCEPT ![t] = @ + 1]
    /\ UNCHANGED <<pc, idx, buff, waited, ncalls, spec, rate, snap>>
    /\ UNCHANGED <<mutexes, demux, rxconf, send_size, tx_mux, rates>>
    /\ UNCHANGED <<async, sizing>>

\* update_tx_subdev_spec taking the recv lock while it holds the send lock
TxSpecRelease_Inverted(t) ==
    /\ pc[t] = "tx_bind"
    /\ iter[t] >= send_size
    /\ recv_mutex = 0
    /\ send_mutex' = 0
    /\ pc' = [pc EXCEPT ![t] = "idle"]
    /\ spec' = [spec EXCEPT ![t] = <<>>]
    /\ iter' = [iter EXCEPT ![t] = 0]
    /\ snap' = [snap EXCEPT ![t] = <<>>]
    /\ UNCHANGED <<idx, buff, waited, ncalls, rate, recv_mutex>>
    /\ UNCHANGED <<demux, rxconf, txconf, rates>>
    /\ UNCHANGED <<async, sizing>>

\* line 222: the function ends and releases the send lock
TxSpecRelease(t) ==
    /\ pc[t] = "tx_bind"
    /\ iter[t] >= send_size
    /\ send_mutex' = 0
    /\ pc' = [pc EXCEPT ![t] = "idle"]
    /\ spec' = [spec EXCEPT ![t] = <<>>]
    /\ iter' = [iter EXCEPT ![t] = 0]
    /\ snap' = [snap EXCEPT ![t] = <<>>]
    /\ UNCHANGED <<idx, buff, waited, ncalls, rate, recv_mutex>>
    /\ UNCHANGED <<demux, rxconf, txconf, rates>>
    /\ UNCHANGED <<async, sizing>>

\* the caller of an update_*_subdev_spec that threw handles the exception
Caught(t) ==
    /\ pc[t] = "threw"
    /\ pc' = [pc EXCEPT ![t] = "idle"]
    /\ UNCHANGED <<idx, buff, waited, ncalls, spec, iter, rate, snap>>
    /\ UNCHANGED <<mutexes, demux, rxconf, txconf, rates>>
    /\ UNCHANGED <<async, sizing>>

(* ----------------------- handle_async_message -------------------------- *)
\* lines 127-131: what if_hdr_unpack_le and get_context_code read from a
\* packet whose header decodes
Decoded(pkt) ==
    [sid |-> pkt.sid, type |-> pkt.type, tsi |-> pkt.tsi, tsf |-> pkt.tsf,
     code |-> pkt.code]

\* line 136: the packet is an event of the transmit side
IsAsyncEvent(info) == info.sid = B100_TX_ASYNC_SID /\ info.type # "data"

\* lines 138-144: the record built from if_packet_info; seq numbers the
\* packets in arrival order
Metadata(info, n) ==
    [seq |-> n, channel |-> 0, has_time_spec |-> (info.tsi /\ info.tsf),
     event_code |-> info.code]

\* lines 125-156.  if_packet_info is a local without initialiser (line
\* 126); when if_hdr_unpack_le throws, the catch of lines 132-134 reports
\* and execution goes on to line 136, which reads whatever the local
\* holds: info is then any value.
handle_async_message(pkt, info) ==
    /\ pkt.ok => info = Decoded(pkt)
    /\ npkts' = npkts + 1
    /\ async_pkt' = pkt
    /\ async_info' = info
    /\ IF IsAsyncEvent(info)
       THEN /\ async_msg_fifo' = push_with_pop_on_full(
                    async_msg_fifo, Metadata(info, npkts + 1), AsyncDepth)
            /\ async_log' = IF pkt.ok THEN {} ELSE {"error"}
       ELSE /\ async_log' = IF pkt.ok THEN {"unknown"}
                                      ELSE {"error", "unknown"}
            /\ UNCHANGED async_msg_fifo
    /\ UNCHANGED <<async_metadata, async_ret, locals, device, sizing>>

\* an event of the transmit side carrying both timestamps
EventPkt ==
    [ok |-> TRUE, sid |-> B100_TX_ASYNC_SID, type |-> "context",
     tsi |-> TRUE, tsf |-> TRUE, code |-> "underflow"]

(* --------------------------- recv_async_msg ---------------------------- *)
\* line 231, pop_with_timed_wait: a record is there when the call is made
AsyncPopReady(t) ==
    /\ pc[t] = "idle"
    /\ async_msg_fifo # <<>>
    /\ async_metadata' = [async_metadata EXCEPT ![t] = Head(async_msg_fifo)]
    /\ async_ret' = [async_ret EXCEPT ![t] = TRUE]
    /\ async_msg_fifo' = Tail(async_msg_fifo)
    /\ waited' = [waited EXCEPT ![t] = 0]
    /\ UNCHANGED <<pc, idx, buff, ncalls, spec, iter, rate, snap>>
    /\ UNCHANGED <<npkts, async_pkt, async_info, async_log, device, sizing>>

\* the queue is empty: the call starts to wait
AsyncWait(t) ==
    /\ pc[t] = "idle"
    /\ async_msg_fifo = <<>>
    /\ pc' = [pc EXCEPT ![t] = "async_wait"]
    /\ waited' = [waited EXCEPT ![t] = 0]
    /\ UNCHANGED <<idx, buff, ncalls, spec, iter, rate, snap>>
    /\ UNCHANGED <<async, device, sizing>>

\* one unit of the timeout goes by with the queue still empty
AsyncTick(t) ==
    /\ pc[t] = "async_wait"
    /\ async_msg_fifo = <<>>
    /\ waited[t] < Timeout
    /\ waited' = [waited EXCEPT ![t] = @ + 1]
    /\ UNCHANGED <<pc, idx, buff, ncalls, spec, iter, rate, snap>>
    /\ UNCHANGED <<async, device, sizing>>

\* a record has been pushed while the call waited: it is woken and pops
AsyncWake(t) ==
    /\ pc[t] = "async_wait"
    /\ async_msg_fifo # <<>>
    /\ async_metadata' = [async_metadata EXCEPT ![t] = Head(async_msg_fifo)]
    /\ async_ret' = [async_ret EXCEPT ![t] = TRUE]
    /\ async_msg_fifo' = Tail(async_msg_fifo)
    /\ pc' = [pc EXCEPT ![t] = "idle"]
    /\ UNCHANGED <<idx, buff, waited, ncalls, spec, iter, rate, snap>>
    /\ UNCHANGED <<npkts, async_pkt, async_info, async_log, device, sizing>>

\* the wait that never gives up (pop_with_wait in the place of
\* pop_with_timed_wait): at the end of the timeout the wait starts again
AsyncTimeout_Mut(t) ==
    /\ pc[t] = "async_wait"
    /\ async_msg_fifo = <<>>
    /\ waited[t] >= Timeout
    /\ waited' = [waited EXCEPT ![t] = 0]
    /\ UNCHANGED <<pc, idx, buff, ncalls, spec, iter, rate, snap>>
    /\ UNCHANGED <<async, device, sizing>>

\* the timeout is over and the queue still empty: the call returns false
\* and leaves async_metadata as it was
AsyncTimeout(t) ==
    /\ pc[t] = "async_wait"
    /\ async_msg_fifo = <<>>
    /\ waited[t] >= Timeout
    /\ async_ret' = [async_ret EXCEPT ![t] = FALSE]
    /\ pc' = [pc EXCEPT ![t] = "idle"]
    /\ UNCHANGED <<idx, buff, waited, ncalls, spec, iter, rate, snap>>
    /\ UNCHANGED <<async_msg_fifo, npkts, async_pkt, async_info, async_log,
                   async_metadata, device, sizing>>

(* ------------------- get_max_*_samps_per_packet ------------------------ *)
\* vrt::max_if_hdr_words32 and the sizes of the fields of if_packet_info_t
max_if_hdr_words32 == 7
SizeofWord32 == 4
SizeofCid == 8
SizeofTlr == 4
\* lines 242 and 267: the FPGA's packet buffer
PacketBytes == 2048

\* otw_type_t::get_sample_size: an I and a Q of width bits, in bytes
get_sample_size(width) == (width * 2) \div 8

\* lines 238-241
send_hdr_size == max_if_hdr_words32 * SizeofWord32 - SizeofCid

\* lines 262-266 without line 264: the trailer forgotten
recv_hdr_size_Mut == max_if_hdr_words32 * SizeofWord32 - SizeofCid

\* lines 262-266
recv_hdr_size == max_if_hdr_words32 * SizeofWord32 + SizeofTlr - SizeofCid

\* lines 242-243
max_send_samps_per_packet(width) ==
    (PacketBytes - send_hdr_size) \div get_sample_size(width)

\* lines 267-268
max_recv_samps_per_packet(width) ==
    (PacketBytes - recv_hdr_size) \div get_sample_size(width)

\* the widths whose samples fill whole bytes
Widths == {w \in 1..MaxWidth : (w * 2) % 8 = 0}

get_max_send_samps_per_packet ==
    /\ max_send_samps' = max_send_samps_per_packet(tx_otw_width)
    /\ UNCHANGED <<rx_otw_width, tx_otw_width, max_recv_samps>>
    /\ UNCHANGED <<locals, device, async>>

get_max_recv_samps_per_packet ==
    /\ max_recv_samps' = max_recv_samps_per_packet(rx_otw_width)
    /\ UNCHANGED <<rx_otw_width, tx_otw_width, max_send_samps>>
    /\ UNCHANGED <<locals, device, async>>

\* a device of any otw widths on which neither function has been called
InitSizing ==
    /\ InitDevice
    /\ InitEvents
    /\ rx_otw_width \in Widths
    /\ tx_otw_width \in Widths
    /\ max_recv_samps = -1
    /\ max_send_samps = -1

Next ==
    \/ \E pkt \in Packets, info \in Infos :
           npkts < MaxPkts /\ handle_async_message(pkt, info)
    \/ get_max_send_samps_per_packet
    \/ get_max_recv_samps_per_packet
    \/ \E t \in Threads :
           AsyncPopReady(t) \/ AsyncWait(t) \/ AsyncTick(t) \/ AsyncWake(t)
               \/ AsyncTimeout(t)
    \/ \E t \in Threads :
        \/ GrbPop(t)
        \/ GrbTimeout(t)
        \/ \E sid \in Sids, w \in 0..Timeout : GrbRecv(t, sid, w)
        \/ RecvAcquire(t)
        \/ \E i \in Chans : RecvFetch(t, i)
        \/ RecvRelease(t)
        \/ SendAcquire(t)
        \/ SendRelease(t)
        \/ \E r \in Rates : TickRecv(t, r)
        \/ TickSend(t)
        \/ \E r \in Rates : update_rx_samp_rate(t, r)
        \/ \E r \in Rates : update_tx_samp_rate(t, r)
        \/ \E s \in RxSpecs : RxSpecLock(t, s)
        \/ RxSpecValidate(t)
        \/ RxSpecMux(t)
        \/ RxSpecResize(t)
        \/ RxSpecBind(t)
        \/ RxSpecRelease(t)
        \/ \E s \in TxSpecs : TxSpecLock(t, s)
        \/ TxSpecValidate(t)
        \/ TxSpecMux(t)
        \/ TxSpecResize(t)
        \/ TxSpecBind(t)
        \/ TxSpecRelease(t)
        \/ Caught(t)

Spec == Init /\ [][Next]_vars

\* the receive path of a configured device: recv and get_recv_buff called
\* by every thread, the transport answering at once or not at all
NextDemux ==
    \E t \in Threads :
        \/ GrbPop(t)
        \/ GrbTimeout(t)
        \/ \E sid \in Sids : GrbRecv(t, sid, 0)
        \/ RecvAcquire(t)
        \/ \E i \in Chans : RecvFetch(t, i)
        \/ RecvRelease(t)

SpecDemux == InitConfigured /\ [][NextDemux]_vars

\* the get_recv_buff calls of one thread, the transport taking any time up
\* to the timeout to hand out a buffer
NextLoop ==
    \/ GrbPop(1)
    \/ GrbTimeout(1)
    \/ \E sid \in Sids, w \in 0..Timeout : GrbRecv(1, sid, w)
    \/ RecvAcquire(1)
    \/ \E i \in Chans : RecvFetch(1, i)
    \/ RecvRelease(1)

SpecLoop == InitConfigured /\ [][NextLoop]_vars

\* every operation that takes a lock, over a transport that delivers nothing
NextLock ==
    \E t \in Threads :
        \/ GrbTimeout(t)
        \/ RecvAcquire(t)
        \/ \E i \in Chans : RecvFetch(t, i)
        \/ RecvRelease(t)
        \/ SendAcquire(t)
        \/ SendRelease(t)
        \/ \E r \in Rates : TickRecv(t, r)
        \/ TickSend(t)
        \/ \E r \in Rates : update_rx_samp_rate(t, r)
        \/ \E r \in Rates : update_tx_samp_rate(t, r)
        \/ \E s \in RxSpecs : RxSpecLock(t, s)
        \/ RxSpecValidate(t)
        \/ RxSpecMux(t)
        \/ RxSpecResize(t)
        \/ RxSpecBind(t)
        \/ RxSpecRelease(t)
        \/ \E s \in TxSpecs : TxSpecLock(t, s)
        \/ TxSpecValidate(t)
        \/ TxSpecMux(t)
        \/ TxSpecResize(t)
        \/ TxSpecBind(t)
        \/ TxSpecRelease(t)
        \/ Caught(t)

SpecLock == Init /\ [][NextLock]_vars

\* the steps of an operation of thread t that is under way
Proceed(t) ==
    \/ GrbTimeout(t)
    \/ \E i \in Chans : RecvFetch(t, i)
    \/ RecvRelease(t)
    \/ SendRelease(t)
    \/ TickSend(t)
    \/ RxSpecValidate(t)
    \/ RxSpecMux(t)
    \/ RxSpecResize(t)
    \/ RxSpecBind(t)
    \/ RxSpecRelease(t)
    \/ TxSpecValidate(t)
    \/ TxSpecMux(t)
    \/ TxSpecResize(t)
    \/ TxSpecBind(t)
    \/ TxSpecRelease(t)
    \/ Caught(t)

\* every thread keeps running; recv returns after finitely many fetches,
\* and a thread waiting for a mutex that is free again and again gets it
LockFair ==
    \A t \in Threads :
        /\ WF_vars(Proceed(t))
        /\ SF_vars(RecvRelease(t))
        /\ SF_vars(TickSend(t))

\* one spec that passes validate_subdev_spec and one that does not
LockSpecs == {<<"A">>, <<"X">>}

\* every operation that takes a lock, with the arguments that decide how it
\* ends, over a transport that delivers nothing
NextLockOrder ==
    \E t \in Threads :
        \/ GrbTimeout(t)
        \/ RecvAcquire(t)
        \/ RecvFetch(t, 0)
        \/ RecvRelease(t)
        \/ SendAcquire(t)
        \/ SendRelease(t)
        \/ TickRecv(t, 1)
        \/ TickSend(t)
        \/ update_rx_samp_rate(t, 1)
        \/ update_tx_samp_rate(t, 1)
        \/ \E s \in LockSpecs : RxSpecLock(t, s)
        \/ RxSpecValidate(t)
        \/ RxSpecMux(t)
        \/ RxSpecResize(t)
        \/ RxSpecBind(t)
        \/ RxSpecRelease(t)
        \/ \E s \in LockSpecs : TxSpecLock(t, s)
        \/ TxSpecValidate(t)
        \/ TxSpecMux(t)
        \/ TxSpecResize(t)
        \/ TxSpecBind(t)
        \/ TxSpecRelease(t)
        \/ Caught(t)

SpecLockFair == Init /\ [][NextLockOrder]_vars /\ LockFair

\* reconfigurations of the receive side with specs of any length, between
\* recv calls over a transport that delivers nothing
NextReconf ==
    \E t \in Threads :
        \/ \E s \in AnyRxSpecs : RxSpecLock(t, s)
        \/ RxSpecValidate(t)
        \/ RxSpecMux(t)
        \/ RxSpecResize(t)
        \/ RxSpecBind(t)
        \/ RxSpecRelease(t)
        \/ Caught(t)
        \/ RecvAcquire(t)
        \/ \E i \in Chans : RecvFetch(t, i)
        \/ GrbTimeout(t)
        \/ RecvRelease(t)

SpecReconf == Init /\ [][NextReconf]_vars

\* the transport's event context alone: packets of every kind
NextHandler ==
    \E pkt \in Packets, info \in Infos :
        npkts < MaxPkts /\ handle_async_message(pkt, info)

SpecHandler == Init /\ [][NextHandler]_vars

\* a run of events of the transmit side, and one thread that polls only
\* when a record is there
NextFifo ==
    \/ npkts < MaxEvents /\ handle_async_message(EventPkt, Decoded(EventPkt))
    \/ AsyncPopReady(1)

SpecFifo == Init /\ [][NextFifo]_vars

\* a few events, and every thread polling for them
NextPoll ==
    \/ npkts < MaxPushes /\ handle_async_message(EventPkt, Decoded(EventPkt))
    \/ \E t \in Threads :
           \/ AsyncPopReady(t)
           \/ AsyncWait(t)
           \/ AsyncTick(t)
           \/ AsyncWake(t)
           \/ AsyncTimeout(t)

\* a waiting recv_async_msg is woken by a push or by the end of its
\* timeout: the wait of a call in progress goes on whenever it can
PollFair ==
    \A t \in Threads : WF_vars(AsyncTick(t) \/ AsyncWake(t) \/ AsyncTimeout(t))

SpecPoll == Init /\ [][NextPoll]_vars /\ PollFair

\* the two sizing functions applied to devices of any otw widths
NextSizing ==
    \/ get_max_send_samps_per_packet
    \/ get_max_recv_samps_per_packet

SpecSizing == InitSizing /\ [][NextSizing]_vars

(* ======================= properties of the receive path ================ *)
Target(b) == rx_index(hist[b].sid)
Delivered == 1..nbufs
\* in a step in which the transport hands out a buffer: its channel
NewTarget == rx_index(hist'[nbufs'].sid)
InRecv(t) == pc[t] \in {"recv", "grb"}
InRxSpec(t) == pc[t] \in {"rx_validate", "rx_mux", "rx_bind"}
InSend(t) == pc[t] = "send"
InTxSpec(t) == pc[t] \in {"tx_validate", "tx_mux", "tx_resize", "tx_bind"}

\* C1: a non-null buffer returned by get_recv_buff(i, timeout) is addressed
\* to channel i (its stream id minus B100_RX_SID_BASE is i), whether it came
\* from the channel's queue or straight from the transport.
C1_ReturnedBufferTargetsIndex ==
    \A t \in Threads :
        (pc[t] = "recv" /\ buff[t] # NULL) => Target(buff[t]) = idx[t]

\* a caller holds a buffer that another thread's call had redirected
C1_Witness ==
    \E t \in Threads :
        /\ pc[t] = "recv"
        /\ buff[t] # NULL
        /\ hist[buff[t]].cross

\* C2 as claimed: a redirected buffer is never dropped, however many
\* buffers are redirected before its channel is next requested: it is in
\* its channel's queue or has been returned.
C2_NeverDropped ==
    \A b \in Delivered :
        hist[b].redirected => (InQueue(b, Target(b)) \/ hist[b].nret > 0)

\* C2 amended: a redirected buffer is appended to its channel's queue and
\* leaves it only by being returned to a caller requesting that channel or,
\* being the oldest entry of a queue that holds get_num_recv_frames buffers,
\* by being evicted when one more buffer is redirected there.
C2_Placed ==
    \A t \in Threads :
        (/\ pc[t] = "grb"
         /\ nbufs' = nbufs + 1
         /\ NewTarget # idx[t]
         /\ NewTarget < RecvWidth)
        => /\ buffs_queue'[NewTarget] # <<>>
           /\ buffs_queue'[NewTarget][Len(buffs_queue'[NewTarget])]
                  = nbufs'
           /\ hist'[nbufs'].by = t

C2_Leaves ==
    \A j \in Chans : \A k \in DOMAIN buffs_queue[j] :
        LET b == buffs_queue[j][k] IN
        (\A k2 \in DOMAIN buffs_queue'[j] : buffs_queue'[j][k2] # b)
        => \/ \E t \in Threads :
                /\ pc[t] = "grb" /\ idx[t] = j
                /\ pc'[t] = "recv" /\ buff'[t] = b
           \/ /\ k = 1
              /\ Len(buffs_queue[j]) = NumRecvFrames
              /\ Len(buffs_queue'[j]) = NumRecvFrames
              /\ buffs_queue'[j][NumRecvFrames] = nbufs'
              /\ nbufs' = nbufs + 1
              /\ hist'[b].fate = "evicted"

C2_Accounted ==
    \A b \in Delivered :
        hist[b].redirected =>
            \/ InQueue(b, Target(b)) /\ hist[b].fate = "queued"
            \/ hist[b].nret > 0 /\ hist[b].fate = "returned"
            \/ hist[b].fate = "evicted"

C2_DroppedOnlyByEviction ==
    [](C2_Accounted) /\ [][C2_Placed /\ C2_Leaves]_vars

\* one redirected buffer was evicted, another was returned to its channel
C2_Witness ==
    \E b, c \in Delivered :
        /\ hist[b].fate = "evicted"
        /\ hist[c].redirected
        /\ hist[c].nret = 1

\* C3: for every channel the buffers are returned in the order in which the
\* transport delivered them: its queue is in delivery order, everything
\* still queued was delivered after the buffer returned last, and each
\* buffer returned was delivered after the one returned before it.
C3_QueueInOrder ==
    \A j \in Chans : \A k \in DOMAIN buffs_queue[j] :
        /\ buffs_queue[j][k] > last_ret[j]
        /\ k > 1 => buffs_queue[j][k - 1] < buffs_queue[j][k]

C3_PerChannelOrder ==
    [](C3_QueueInOrder)
    /\ [][\A j \in Chans : last_ret'[j] >= last_ret[j]]_vars

\* a channel was handed a re-queued buffer and, after it, a later one
C3_Witness ==
    \E t \in Threads : \E b \in Delivered :
        /\ pc[t] = "recv"
        /\ buff[t] # NULL
        /\ b < buff[t]
        /\ hist[b].redirected
        /\ hist[b].nret = 1
        /\ Target(b) = idx[t]

\* C4: a get_recv_buff(i) that finds channel i's queue non-empty removes and
\* returns the oldest buffer of that queue without calling the transport;
\* so a buffer that had been re-queued is returned by a call that made no
\* transport call, and a call that did reach the transport returns the
\* buffer delivered last.
C4_FastStep ==
    \A t \in Threads :
        (/\ pc[t] = "grb"
         /\ buffs_queue[idx[t]] # <<>>
         /\ \/ pc'[t] # pc[t]
            \/ ncalls'[t] # ncalls[t]
            \/ nbufs' # nbufs
            \/ buffs_queue' # buffs_queue)
        => /\ pc'[t] = "recv"
           /\ buff'[t] = Head(buffs_queue[idx[t]])
           /\ buffs_queue' = [buffs_queue EXCEPT ![idx[t]] = Tail(@)]
           /\ nbufs' = nbufs
           /\ ncalls'[t] = 0
           /\ waited'[t] = 0

C4_Example ==
    \A t \in Threads :
        (pc[t] = "recv" /\ buff[t] # NULL) =>
            /\ hist[buff[t]].redirected => ncalls[t] = 0
            /\ ~hist[buff[t]].redirected => (ncalls[t] > 0 /\ buff[t] = nbufs)

C4_FastPath == [](C4_Example) /\ [][C4_FastStep]_vars

\* the transport delivered a packet for channel 1 and then one for channel
\* 0 to a request for channel 0, which returned the second; the request for
\* channel 1 that followed returned the first without a transport call
C4_Witness ==
    \E t \in Threads :
        /\ nbufs = 2
        /\ Target(1) = 1 /\ hist[1].redirected
        /\ Target(2) = 0 /\ ~hist[2].redirected /\ hist[2].nret = 1
        /\ pc[t] = "recv" /\ idx[t] = 1 /\ buff[t] = 1 /\ ncalls[t] = 0

\* C5: with receive calls of several threads on different channels pulling
\* and redirecting, every buffer the transport handed out has exactly one
\* owner: one position of one channel queue, one caller it was returned to,
\* or it was discarded or evicted; two callers never hold the same buffer.
C5_OneOwner ==
    /\ \A b \in Delivered :
          Occurrences(b) + hist[b].nret
              + (IF hist[b].fate \in {"evicted", "discarded"} THEN 1 ELSE 0) = 1
    /\ \A t1, t2 \in Threads :
          (t1 # t2 /\ buff[t1] # NULL) => buff[t1] # buff[t2]
    /\ \A j \in Chans : \A k \in DOMAIN buffs_queue[j] :
          buffs_queue[j][k] \in Delivered

\* two threads each redirected a buffer while asking for another channel,
\* and one of them now holds the buffer the other had redirected
C5_Witness ==
    \E t \in Threads : \E b \in Delivered :
        /\ pc[t] = "recv"
        /\ buff[t] # NULL
        /\ hist[buff[t]].cross
        /\ hist[b].by = t

(* ==================== properties of the configuration ================== *)
RxBound == \A i \in DOMAIN recv_chan : recv_chan[i].get_buff = i
TxBound == \A i \in DOMAIN send_chan : send_chan[i] = "get_send_buff"
RxNeverConfigured == recv_chan = [i \in 0..0 |-> NoRecvChan]
TxNeverConfigured == send_chan = [i \in 0..0 |-> NoSendChan]

C7_Exclusive ==
    /\ \A t \in Threads : (InRecv(t) \/ InRxSpec(t)) => recv_mutex = t
    /\ \A t \in Threads : (InSend(t) \/ InTxSpec(t)) => send_mutex = t
    /\ \A t1, t2 \in Threads : ~(InRecv(t1) /\ InRxSpec(t2))
    /\ \A t1, t2 \in Threads : ~(InSend(t1) /\ InTxSpec(t2))
    /\ \A t \in Threads :
          InRecv(t) => /\ RxBound \/ RxNeverConfigured
                       /\ DOMAIN recv_chan = 0..(recv_size - 1)
    /\ \A t \in Threads :
          InSend(t) => /\ TxBound \/ TxNeverConfigured
                       /\ DOMAIN send_chan = 0..(send_size - 1)
    /\ recv_mutex = 0 => (RxBound \/ RxNeverConfigured)
    /\ send_mutex = 0 => (TxBound \/ TxNeverConfigured)

\* a receive reconfiguration has resized the channels and not yet rebound
\* them all, while a send is in flight
C7_Witness ==
    \E t1, t2 \in Threads :
        /\ pc[t1] = "rx_bind"
        /\ iter[t1] < recv_size
        /\ ~RxBound
        /\ pc[t2] = "send"

\* C8: when update_rx_subdev_spec or update_tx_subdev_spec throws, the
\* direction's channel count, bindings and mux settings are those the call
\* found, and the direction's lock is free.
C8_Step ==
    \A t \in Threads :
        (pc[t] # "threw" /\ pc'[t] = "threw") =>
            /\ InRxSpec(t) => (rxconf' = snap[t] /\ recv_mutex' = 0)
            /\ InTxSpec(t) => (TxSnap' = snap[t] /\ send_mutex' = 0)
            /\ InRxSpec(t) \/ InTxSpec(t)

C8_AllOrNothing == [][C8_Step]_vars

\* an update threw on a device whose two directions had been configured
C8_Witness ==
    \E t \in Threads :
        /\ pc[t] = "threw"
        /\ rx_mux[0] # "unset"
        /\ tx_mux # "unset"
        /\ RxBound /\ TxBound

(* ========================= properties of the locks ===================== *)
\* the steps thread t can take
ThreadNext(t) ==
    \/ GrbPop(t)
    \/ GrbTimeout(t)
    \/ \E sid \in Sids, w \in 0..Timeout : GrbRecv(t, sid, w)
    \/ RecvAcquire(t)
    \/ \E i \in Chans : RecvFetch(t, i)
    \/ RecvRelease(t)
    \/ SendAcquire(t)
    \/ SendRelease(t)
    \/ \E r \in Rates : TickRecv(t, r)
    \/ TickSend(t)
    \/ \E r \in Rates : update_rx_samp_rate(t, r)
    \/ \E r \in Rates : update_tx_samp_rate(t, r)
    \/ \E s \in RxSpecs : RxSpecLock(t, s)
    \/ RxSpecValidate(t)
    \/ RxSpecMux(t)
    \/ RxSpecResize(t)
    \/ RxSpecBind(t)
    \/ RxSpecRelease(t)
    \/ \E s \in TxSpecs : TxSpecLock(t, s)
    \/ TxSpecValidate(t)
    \/ TxSpecMux(t)
    \/ TxSpecResize(t)
    \/ TxSpecBind(t)
    \/ TxSpecRelease(t)
    \/ Caught(t)

Holds(t) == recv_mutex = t \/ send_mutex = t

\* C9 as claimed: in every operation, update_tick_rate included, a thread
\* that holds one direction's lock is never made to wait by the other
\* direction's lock.
C9_NeverBlockedByOtherDirection ==
    \A t \in Threads : Holds(t) => ENABLED ThreadNext(t)

\* C9 amended: recv, update_rx_samp_rate and update_rx_subdev_spec take only
\* the receive lock and send, update_tx_samp_rate and update_tx_subdev_spec
\* only the send lock, and none of them waits while holding it; the one
\* exception is update_tick_rate, which keeps the receive lock while it
\* waits for the send lock, so that a send in flight delays receive callers
\* for as long as an update_tick_rate is waiting.
C9_OnlyTickRateCouples ==
    /\ \A t \in Threads :
          recv_mutex = t => (InRecv(t) \/ InRxSpec(t) \/ pc[t] = "tick_send")
    /\ \A t \in Threads : send_mutex = t => (InSend(t) \/ InTxSpec(t))
    /\ \A t \in Threads :
          (Holds(t) /\ ~ENABLED ThreadNext(t)) =>
              /\ pc[t] = "tick_send"
              /\ recv_mutex = t
              /\ send_mutex \notin {0, t}

\* update_tick_rate holds the receive lock and waits for a send in flight
C9_Witness ==
    \E t1, t2 \in Threads :
        /\ pc[t1] = "tick_send"
        /\ recv_mutex = t1
        /\ pc[t2] = "send"
        /\ send_mutex = t2
        /\ ~ENABLED ThreadNext(t1)

(* ===================== termination of get_recv_buff ==================== *)
\* C10 as claimed: a get_recv_buff call never waits on the transport for
\* longer than the timeout it was given.
C10_WithinTimeout == \A t \in Threads : waited[t] <= Timeout

\* C10 amended: every transport call of get_recv_buff waits at most the
\* timeout, and the loop goes round again only when that call delivered a
\* buffer for another channel: the call ends at the first matching buffer
\* and at the first transport timeout.  The time spent is bounded by the
\* timeout for each transport call made, not by one timeout for the call.
C10_Step ==
    \A t \in Threads :
        (pc[t] = "grb" /\ ncalls'[t] = ncalls[t] + 1) =>
            /\ waited'[t] <= waited[t] + Timeout
            /\ pc'[t] \in {"grb", "recv"}
            /\ pc'[t] = "grb" <=>
                  (nbufs' = nbufs + 1 /\ NewTarget # idx[t])
            /\ (pc'[t] = "recv" /\ nbufs' = nbufs) => buff'[t] = NULL

C10_EndsOnMatchOrTimeout ==
    [](\A t \in Threads : waited[t] <= ncalls[t] * Timeout) /\ [][C10_Step]_vars

\* a call timed out after redirecting, having waited more than one timeout
C10_Witness ==
    \E t \in Threads :
        /\ pc[t] = "recv"
        /\ buff[t] = NULL
        /\ ncalls[t] >= 2
        /\ waited[t] > Timeout
(* ===================== properties of the event queue =================== *)
Pushing == npkts' = npkts + 1
NoPopYet == \A t \in Threads : async_metadata[t] = NoMetadata
FifoSeqs == [k \in DOMAIN async_msg_fifo |-> async_msg_fifo[k].seq]

\* C11: the event queue holds at most 100 records and drops the oldest
\* when one more arrives.  A push always succeeds and puts the new record
\* at the tail; the queue holds the most recent records in arrival order,
\* pops take them from the front, and after 101 pushes with no pop the
\* queue holds records 2..101.
C11_Push ==
    Pushing =>
        /\ async_msg_fifo' # <<>>
        /\ async_msg_fifo'[Len(async_msg_fifo')].seq = npkts'
        /\ Len(async_msg_fifo) < 100
              => async_msg_fifo' = Append(async_msg_fifo,
                                          async_msg_fifo'[Len(async_msg_fifo')])
        /\ Len(async_msg_fifo) = 100
              => /\ Len(async_msg_fifo') = 100
                 /\ SubSeq(async_msg_fifo', 1, 99) = Tail(async_msg_fifo)

C11_Pop ==
    \A t \in Threads :
        async_metadata'[t] # async_metadata[t]
            => /\ async_msg_fifo # <<>>
               /\ async_metadata'[t] = Head(async_msg_fifo)
               /\ async_msg_fifo' = Tail(async_msg_fifo)

C11_MostRecent ==
    /\ Len(async_msg_fifo) <= 100
    /\ \A k \in DOMAIN async_msg_fifo :
          async_msg_fifo[k].seq = npkts - Len(async_msg_fifo) + k
    /\ NoPopYet =>
          Len(async_msg_fifo) = (IF npkts < 100 THEN npkts ELSE 100)
    /\ (NoPopYet /\ npkts = 101) => FifoSeqs = [k \in 1..100 |-> k + 1]
    /\ npkts < MaxEvents
          => ENABLED handle_async_message(EventPkt, Decoded(EventPkt))

C11_OverwriteOldest ==
    [](C11_MostRecent) /\ [][C11_Push /\ C11_Pop]_vars

\* 101 events were pushed with no pop, then the oldest record left was
\* popped
C11_Witness ==
    /\ npkts = 101
    /\ Len(async_msg_fifo) = 99
    /\ async_metadata[1].seq = 2

\* C12: a recv_async_msg that finds the queue empty does not wait for
\* ever: it returns false when its timeout is over and nothing was pushed,
\* and when a record is pushed while it waits it stops waiting and a
\* waiting call returns the record at the front of the queue.
C12_Return ==
    \A t \in Threads :
        (pc[t] = "async_wait" /\ pc'[t] # "async_wait")
        => /\ pc'[t] = "idle"
           /\ \/ /\ async_ret'[t] = FALSE
                 /\ waited[t] = Timeout
                 /\ async_msg_fifo = <<>>
                 /\ UNCHANGED <<async_msg_fifo, async_metadata>>
              \/ /\ async_ret'[t] = TRUE
                 /\ async_msg_fifo # <<>>
                 /\ async_metadata'[t] = Head(async_msg_fifo)
                 /\ async_msg_fifo' = Tail(async_msg_fifo)

C12_Woken ==
    \A t \in Threads :
        /\ pc[t] = "async_wait" => waited[t] <= Timeout
        /\ (pc[t] = "async_wait" /\ async_msg_fifo # <<>>)
              => /\ ENABLED AsyncWake(t)
                 /\ ~ENABLED AsyncTimeout(t)
                 /\ ~ENABLED AsyncTick(t)

C12_PollEnds ==
    /\ \A t \in Threads : (pc[t] = "async_wait") ~> (pc[t] = "idle")
    /\ [](C12_Woken)
    /\ [][C12_Return]_vars

\* one thread waited and was woken by a push, another waited to the end of
\* its timeout
C12_Witness ==
    \E t, u \in Threads :
        /\ pc[t] = "idle" /\ async_ret[t] /\ waited[t] >= 1
        /\ pc[u] = "idle" /\ ~async_ret[u] /\ waited[u] = Timeout

(* ======================== properties of the sizing ===================== *)
\* C13: the result is (2048 - overhead) / sample size in integer division,
\* the overhead being the longest header less the class id and, for
\* receive, plus the trailer; it is at least 1, and smaller for every
\* wider sample.
C13_Overhead(dir) ==
    max_if_hdr_words32 * SizeofWord32 - SizeofCid
        + (IF dir = "rx" THEN SizeofTlr ELSE 0)

C13_MaxSamples ==
    /\ max_send_samps # -1 =>
          /\ max_send_samps
                = (2048 - C13_Overhead("tx")) \div get_sample_size(tx_otw_width)
          /\ max_send_samps >= 1
          /\ \A w \in Widths :
                w > tx_otw_width => max_send_samps_per_packet(w) < max_send_samps
    /\ max_recv_samps # -1 =>
          /\ max_recv_samps
                = (2048 - C13_Overhead("rx")) \div get_sample_size(rx_otw_width)
          /\ max_recv_samps >= 1
          /\ \A w \in Widths :
                w > rx_otw_width => max_recv_samps_per_packet(w) < max_recv_samps
    /\ (max_send_samps # -1 /\ max_recv_samps # -1
            /\ rx_otw_width = tx_otw_width)
          => max_recv_samps <= max_send_samps

\* both functions were called on the device as io_init sets it up: 16 bit
\* samples
C13_Witness ==
    /\ rx_otw_width = 16 /\ tx_otw_width = 16
    /\ max_send_samps = 507
    /\ max_recv_samps = 506
(* ====================== properties of the event handler ================ *)
\* C14: when the header of the packet does not decode, handle_async_message
\* reports the failure and drops the packet: the event queue stays as it
\* was.
C14_DecodeFailureDrops ==
    [][(Pushing /\ ~async_pkt'.ok)
          => /\ "error" \in async_log'
             /\ async_msg_fifo' = async_msg_fifo]_vars

\* C15: handle_async_message pushes one record, with channel 0 and
\* has_time_spec set exactly when both timestamp flags are set, if and only
\* if the packet's stream id is B100_TX_ASYNC_SID and its type is not data;
\* for every other packet it reports an unknown packet and leaves the queue
\* as it was.
C15_PushIffAsyncEvent ==
    [][Pushing =>
          IF async_pkt'.sid = B100_TX_ASYNC_SID /\ async_pkt'.type # "data"
          THEN /\ Len(async_msg_fifo') = Len(async_msg_fifo) + 1
               /\ SubSeq(async_msg_fifo', 1, Len(async_msg_fifo))
                      = async_msg_fifo
               /\ async_msg_fifo'[Len(async_msg_fifo')].channel = 0
               /\ async_msg_fifo'[Len(async_msg_fifo')].has_time_spec
                      = (async_pkt'.tsi /\ async_pkt'.tsf)
               /\ "unknown" \notin async_log'
          ELSE /\ async_msg_fifo' = async_msg_fifo
               /\ "unknown" \in async_log']_vars
(* ================== more properties of get_recv_buff =================== *)
OutOfRange(sid) == rx_index(sid) \notin Chans

\* C16: a buffer whose target index is not a channel index (stream ids
\* below the base included) is discarded and reported: the step changes no
\* queue and returns nothing, the call stays in its loop, and the buffer is
\* never in a queue nor returned to any caller afterwards.
C16_DiscardStep ==
    \A t \in Threads :
        (/\ pc[t] = "grb"
         /\ ncalls'[t] = ncalls[t] + 1
         /\ nbufs' = nbufs + 1
         /\ OutOfRange(hist'[nbufs'].sid))
        => /\ hist'[nbufs'].fate = "discarded"
           /\ buffs_queue' = buffs_queue
           /\ pc' = pc
           /\ buff' = buff
           /\ last_ret' = last_ret

C16_NeverSeenAgain ==
    \A b \in DOMAIN hist :
        OutOfRange(hist[b].sid)
        => /\ hist[b].fate = "discarded"
           /\ hist[b].nret = 0
           /\ \A j \in Chans : ~InQueue(b, j) /\ last_ret[j] # b
           /\ \A t \in Threads : buff[t] # b

C16_OutOfRangeDiscarded ==
    [](C16_NeverSeenAgain) /\ [][C16_DiscardStep]_vars

\* one call discarded a buffer with a stream id below the base and one with
\* a stream id past the last channel, then returned a third buffer
C16_Witness ==
    \E t \in Threads :
        /\ pc[t] = "recv"
        /\ ncalls[t] = 3
        /\ buff[t] = 3
        /\ hist[1].sid = B100_RX_SID_BASE - 1
        /\ hist[1].fate = "discarded"
        /\ hist[2].sid = B100_RX_SID_BASE + RecvWidth
        /\ hist[2].fate = "discarded"
        /\ hist[3].fate = "returned"
\* C17: no channel queue ever holds more than get_num_recv_frames buffers;
\* a redirect to a full queue drops exactly that queue's oldest buffer, puts
\* the new buffer at the tail, and keeps the order of the others and every
\* other queue.
C17_Bounded == \A j \in Chans : Len(buffs_queue[j]) <= NumRecvFrames

C17_RedirectToFull ==
    \A j \in Chans :
        (/\ nbufs' = nbufs + 1
         /\ hist'[nbufs'].redirected
         /\ rx_index(hist'[nbufs'].sid) = j
         /\ Len(buffs_queue[j]) = NumRecvFrames)
        => /\ buffs_queue'[j] = Append(Tail(buffs_queue[j]), nbufs')
           /\ \A k \in Chans \ {j} : buffs_queue'[k] = buffs_queue[k]
           /\ hist'[Head(buffs_queue[j])].fate = "evicted"
           /\ \A b \in DOMAIN hist \ {Head(buffs_queue[j])} :
                  hist'[b] = hist[b]

C17_QueueBounded == [](C17_Bounded) /\ [][C17_RedirectToFull]_vars

\* a full queue took one more buffer: its first buffer is gone, the queue
\* holds the next NumRecvFrames buffers in the order they came
C17_Witness ==
    \E j \in Chans :
        /\ Len(buffs_queue[j]) = NumRecvFrames
        /\ \A k \in 1..NumRecvFrames : buffs_queue[j][k] = k + 1
        /\ hist[1].fate = "evicted"
        /\ rx_index(hist[1].sid) = j
        /\ \A k \in Chans \ {j} : buffs_queue[k] = <<>>
\* C18: when the transport hands out nothing, get_recv_buff returns no
\* buffer in that very step, as a normal result to its caller; the step
\* changes no queue, and the ended call makes no further transport call.
C18_TimeoutStep ==
    \A t \in Threads :
        (/\ pc[t] = "grb"
         /\ ncalls'[t] = ncalls[t] + 1
         /\ nbufs' = nbufs)
        => /\ pc'[t] = "recv"
           /\ buff'[t] = NULL
           /\ recv_mutex' = recv_mutex
           /\ buffs_queue' = buffs_queue
           /\ hist' = hist
           /\ last_ret' = last_ret

C18_CallEnded ==
    \A t \in Threads :
        pc[t] = "recv" => ncalls'[t] = ncalls[t] \/ ncalls'[t] = 0

C18_TimeoutReturnsNothing == [][C18_TimeoutStep /\ C18_CallEnded]_vars

\* a call queued one buffer for another channel, then the transport timed
\* out and the call returned nothing; the queued buffer is still there
C18_Witness ==
    \E t \in Threads :
        /\ pc[t] = "recv"
        /\ buff[t] = NULL
        /\ ncalls[t] = 2
        /\ nbufs = 1
        /\ hist[1].fate = "queued"
        /\ \E j \in Chans \ {idx[t]} : buffs_queue[j] = <<1>>
(* ========================== the two locks ============================== *)
RecvHolding == {"recv", "grb", "tick_send", "rx_validate", "rx_mux", "rx_bind"}
SendHolding == {"send", "tx_validate", "tx_mux", "tx_resize", "tx_bind"}

\* C19: no deadlock among send, recv, the two update_*_subdev_spec, the two
\* update_*_samp_rate and update_tick_rate.  A thread holds a lock only
\* inside an operation, so every lock is released when the operation ends,
\* by return or by exception; no thread takes the recv lock while it holds
\* the send lock; every operation under way can take a step, or waits for
\* the send lock whose holder can; and every held lock is released and
\* every waiting update_tick_rate completes.
C19_HeldInsideOperation ==
    \A t \in Threads :
        /\ recv_mutex = t => pc[t] \in RecvHolding
        /\ send_mutex = t => pc[t] \in SendHolding
        /\ pc[t] \in RecvHolding => recv_mutex = t
        /\ pc[t] \in SendHolding => send_mutex = t

C19_CanStep ==
    \A t \in Threads :
        pc[t] # "idle"
        => \/ ENABLED Proceed(t)
           \/ /\ pc[t] = "tick_send"
              /\ send_mutex \in Threads \ {t}
              /\ pc[send_mutex] \in SendHolding
              /\ ENABLED Proceed(send_mutex)

C19_RecvThenSend ==
    \A t \in Threads :
        (recv_mutex' = t /\ recv_mutex # t) => send_mutex # t

C19_Progress ==
    \A t \in Threads :
        /\ (recv_mutex = t) ~> (recv_mutex # t)
        /\ (send_mutex = t) ~> (send_mutex # t)
        /\ (pc[t] = "tick_send") ~> (pc[t] = "idle")

====
